---- MODULE Spec2Model ----
(***************************************************************************)
(* A model of the radar_coverage crate (jblestang/AIRC-Antigravity).       *)
(*                                                                         *)
(* Nine state machines share this module:                                  *)
(*   Spec         the Bevy task orchestrator of main.rs: one step is one   *)
(*                frame, which runs every Update system once, in any order;*)
(*                every system reads the entities as they were when the    *)
(*                frame began (Commands are deferred) and the queued       *)
(*                Commands are applied when the frame ends; background     *)
(*                tasks finish between frames; the user changes the target *)
(*                parameters through the UI;                               *)
(*   SpecLive     the same orchestrator under its scheduling: frames keep  *)
(*                running and the task pool finishes what it was given;    *)
(*   SpecEdit     the same orchestrator with the Radar components changed  *)
(*                from outside;                                            *)
(*   SpecPhysics  compute_viewshed, one ray per step, followed by          *)
(*                compute_coverage_tile on its result, on a small grid;    *)
(*   SpecRayOrder compute_viewshed with the perimeter rays cast in the     *)
(*                code's order or in another one;                          *)
(*   SpecCancel   compute_viewshed with a request to stop the build;       *)
(*   SpecTerrain  TerrainManager::get_altitude called from several threads *)
(*                on a small LRU cache, over files that load or do not;    *)
(*   SpecCache    CoverageCache::get, insert and clear in any order on a   *)
(*                cache about to be full;                                  *)
(*   SpecLos      one call of LosSystem::check_visibility.                 *)
(*                                                                         *)
(* Numbers.  Angles are never evaluated: atan is strictly increasing, so   *)
(* an elevation angle atan(h / d) is kept as the signed square of its      *)
(* tangent, an exact fraction (Atan, AngleGT).  Lengths are in viewshed    *)
(* cells, heights in a unit in which the curvature drop of one cell is a   *)
(* whole number.  f32 rounding of the angles is not modelled.  The SipHash *)
(* digest of DefaultHasher is modelled as the tuple of the values fed to   *)
(* it, that is, as a collision-free hash.                                  *)
(***************************************************************************)
EXTENDS Integers, Sequences, FiniteSets, Bags, TLC

VARIABLES
    \* ---- orchestrator (main.rs) ----
    radars,           \* Radar component of every radar entity
    controller,       \* MapController resource
    radar_viewshed,   \* RadarViewshed component per radar (or None)
    viewshed_task,    \* ComputingViewshedTask component per radar (or None)
    computing,        \* bag of (CoverageTask, ComputingCoverage) entities
    coverage_chunks,  \* bag of CoverageChunk entities
    cache,            \* CoverageCache: LRU entries, most recently used first
    metrics,          \* CoverageMetrics resource
    builds_started,   \* per radar: viewshed builds spawned so far (history)
    changes,          \* parameter changes left to make (the model's bound)
    \* ---- physics (physics/viewshed.rs, coverage/mod.rs) ----
    phys_radar,       \* the Radar handed to compute_viewshed and compute_coverage_tile
    terrain,          \* TerrainManager: ground altitude at every cell of the grid
    k_factor,         \* k_factor handed to compute_viewshed, in thirds
    horizon_map,      \* Viewshed::horizon_map of the build under way
    ray_order,        \* the perimeter cells, in the order their rays are cast
    rays_cast,        \* rays cast so far
    coverage_tile,    \* the CoverageTile last produced (or None)
    cancel,           \* the build under way has been asked to stop
    \* ---- TerrainManager (terrain/mod.rs) ----
    terrain_files,    \* per tile: what the loader finds at the path of its HGT file
    terrain_cache,    \* TerrainManager::cache: LRU entries, most recently used first
    terrain_uses,     \* the tiles the cache was used for, last use first (history)
    terrain_calls,    \* per thread: the tile its get_tile call has missed (or None)
    altitude_result,  \* what the get_altitude call that returned last returned (or None),
                      \* and whether get_tile hit, loaded, or loaded a tile used before
    \* ---- CoverageCache on its own (cache/mod.rs) ----
    cache_uses,       \* the keys the cache was used for, last use first (history)
    cache_log,        \* the last call made on the cache, and what it returned
    cache_ops,        \* calls left to make (the model's bound)
    \* ---- LosSystem (physics/los.rs) ----
    los_call          \* the last check_visibility call and its LosResult (or None)

orch_vars == <<radars, controller, radar_viewshed, viewshed_task,
               computing, coverage_chunks, cache, metrics,
               builds_started, changes>>

phys_vars == <<phys_radar, terrain, k_factor, horizon_map, ray_order, rays_cast,
               coverage_tile>>

lib_vars == <<cancel, terrain_files, terrain_cache, terrain_uses, terrain_calls,
              altitude_result, cache_uses, cache_log, cache_ops, los_call>>

vars == <<orch_vars, phys_vars, lib_vars>>

----------------------------------------------------------------------------
(* Bounds of the model *)

NumRadars == 2     \* radar entities (setup_radars spawns three)
NumTiles == 1      \* tiles of the active window (the code's window is 11 x 11)
MaxChanges == 3    \* Spec: parameter changes made through the UI
MaxLiveChanges == 2    \* SpecLive: parameter changes made through the UI
MaxUiChangesWithEdit == 3  \* SpecEdit: uses of the "Show Coverage" checkbox
MaxRadarEdits == 1         \* SpecEdit: changes made to a Radar component
VsRadius == 3      \* viewshed radius in cells (the code's is 4700)
FullSize == 9      \* samples per tile edge (SRTM3_SIZE is 1201)
MaxRidgeHeight == 20   \* highest ground of the terrains gone through

RadarIds == 1..NumRadars

----------------------------------------------------------------------------
(* Small helpers: options are sets of at most one element, bags are Bags *)

None == {}
Some(v) == {v}
TheOne(S) == CHOOSE v \in S : TRUE

Max(a, b) == IF a >= b THEN a ELSE b
Abs(a) == IF a >= 0 THEN a ELSE -a

BagOf(e) == SetToBag({e})
BagMax(B1, B2) ==
    [e \in (DOMAIN B1) \cup (DOMAIN B2) |-> Max(CopiesIn(e, B1), CopiesIn(e, B2))]
BagFilter(B, P(_)) == [e \in {x \in DOMAIN B : P(x)} |-> B[e]]

----------------------------------------------------------------------------
(* Data of the orchestrator *)

\* setup_radars: the radars spawned at startup (latitude and longitude in
\* 1e-4 degrees, altitude with the 20 m mast added).
InitRadar(r) ==
    LET site == CASE r = 1 -> [latitude |-> 458511, longitude |-> 47933, altitude |-> 646]
                  [] r = 2 -> [latitude |-> 433164, longitude |-> 56835, altitude |-> 1168]
                  [] OTHER -> [latitude |-> 437411, longitude |-> 74208, altitude |-> 1171]
    IN  [name |-> r,
         latitude |-> site.latitude,
         longitude |-> site.longitude,
         altitude |-> site.altitude,
         antenna_height_agl |-> 0,
         tx_power_w |-> 150000,
         gain_dbi |-> 42,
         frequency_mhz |-> 3100,
         system_loss_db |-> 3,
         snr_threshold_db |-> 13]

\* The fields of a Radar component a parameter change may touch.
RadarFields == {"name", "latitude", "longitude", "altitude", "tx_power_w",
                "gain_dbi", "frequency_mhz", "system_loss_db", "snr_threshold_db"}

\* A changed value of field f: another name (names stay pairwise distinct),
\* or the number next to the old one.
ChangedValue(radar, f) == IF f = "name" THEN radar.name + 10 ELSE radar[f] + 1

\* RCSProfile::value, in tenths of a square metre.
RcsValue(profile) ==
    CASE profile = "StealthFighter" -> 1
      [] profile = "Fighter" -> 50
      [] profile = "SmallAircraft" -> 20
      [] profile = "LargeAircraft" -> 500
      [] OTHER -> 50000

\* The profiles and target heights the UI is driven with.  target_agl is an
\* f32 number of metres, kept here in half metres: 100 is 50.0 m, 102 is 51.0 m.
RcsInputs == {"Fighter", "StealthFighter"}
TargetAglInputs == {100, 102}

\* MapController::default
InitController == [show_coverage |-> FALSE, target_agl |-> 100, rcs_profile |-> "Fighter"]

\* `target_agl as i16`: the fraction is dropped and the value saturates.
AsI16(target_agl) ==
    LET whole == IF target_agl >= 0 THEN target_agl \div 2 ELSE -((-target_agl) \div 2)
    IN  IF whole > 32767 THEN 32767 ELSE IF whole < -32768 THEN -32768 ELSE whole

\* The digest without the target altitude.
RadarConfigHashNoAgl(radar, target_agl, target_rcs) ==
    <<radar.name, radar.latitude, radar.longitude, radar.altitude,
      target_rcs,
      radar.frequency_mhz, radar.tx_power_w, radar.gain_dbi>>

\* schedule_coverage_tasks: the digest of a radar's configuration and of the
\* target parameters; the values are hashed in this order.
RadarConfigHash(radar, target_agl, target_rcs) ==
    <<radar.name, radar.latitude, radar.longitude, radar.altitude,
      target_agl, target_rcs,
      radar.frequency_mhz, radar.tx_power_w, radar.gain_dbi>>

\* schedule_coverage_tasks: the stable id, a digest of the name alone.
RadarUniqueId(radar) == <<radar.name>>

CurrentHash(r) ==
    RadarConfigHash(radars[r], controller.target_agl, RcsValue(controller.rcs_profile))

CoverageKey(lat_lon, target_agl, radar_hash) ==
    [lat_lon |-> lat_lon, target_agl_m |-> AsI16(target_agl), radar_hash |-> radar_hash]

\* compute_viewshed, as far as the orchestrator is concerned: the viewshed is
\* a function of the radar snapshot handed to the build.
ViewshedOf(radar) == [built_from |-> radar]

\* compute_coverage_tile, as far as the orchestrator is concerned: the raster
\* is a function of the values captured when the job was spawned.
CoverageTileOf(radar, viewshed, lat_lon, target_rcs, target_agl) ==
    [lat_lon |-> lat_lon, radar |-> radar, viewshed |-> viewshed,
     target_rcs |-> target_rcs, target_agl |-> target_agl]

----------------------------------------------------------------------------
(* CoverageCache: lru::LruCache behind a mutex, capacity 100 *)

CacheCapacity == 100

RemoveAt(s, i) == SubSeq(s, 1, i - 1) \o SubSeq(s, i + 1, Len(s))
LruIndex(c, key) == {i \in 1..Len(c) : c[i].key = key}

\* A get that leaves the order as it is (LruCache::peek).
LruGetNoPromote(c, key) ==
    IF LruIndex(c, key) = {}
    THEN [tile |-> None, cache |-> c]
    ELSE [tile |-> Some(c[TheOne(LruIndex(c, key))].tile), cache |-> c]

\* A get that hands out the most recently used entry, whatever its key.
LruGetFront(c, key) ==
    IF c = <<>>
    THEN [tile |-> None, cache |-> c]
    ELSE [tile |-> Some(c[1].tile), cache |-> c]

\* LruCache::get: a hit moves the entry to the front.
LruGet(c, key) ==
    IF LruIndex(c, key) = {}
    THEN [tile |-> None, cache |-> c]
    ELSE LET i == TheOne(LruIndex(c, key))
         IN  [tile |-> Some(c[i].tile), cache |-> <<c[i]>> \o RemoveAt(c, i)]

\* A put that, over capacity, drops the most recently used entry.
LruPutEvictNewest(c, key, tile, cap) ==
    LET entry == [key |-> key, tile |-> tile]
    IN  IF LruIndex(c, key) # {}
        THEN <<entry>> \o RemoveAt(c, TheOne(LruIndex(c, key)))
        ELSE IF Len(c) >= cap
             THEN <<entry>> \o SubSeq(c, 2, Len(c))
             ELSE <<entry>> \o c

\* LruCache::put: replaces the entry of an existing key, else inserts and,
\* over capacity, drops the least recently used entry.
LruPut(c, key, tile, cap) ==
    LET entry == [key |-> key, tile |-> tile]
    IN  IF LruIndex(c, key) # {}
        THEN <<entry>> \o RemoveAt(c, TheOne(LruIndex(c, key)))
        ELSE IF Len(c) >= cap
             THEN <<entry>> \o SubSeq(c, 1, cap - 1)
             ELSE <<entry>> \o c

----------------------------------------------------------------------------
(* The frame.  A system is an operator on the resources it may write at     *)
(* once (controller, cache, metrics) and on the Commands queued so far; the *)
(* components it reads are the state variables, unchanged during the frame. *)

NoCommands ==
    [insert_task |-> [r \in RadarIds |-> None],
     apply_viewshed |-> [r \in RadarIds |-> None],
     spawn_jobs |-> EmptyBag,
     despawn_jobs |-> EmptyBag,
     spawn_chunks |-> EmptyBag,
     despawn_chunks |-> EmptyBag]

FrameStart ==
    [controller |-> controller, cache |-> cache, metrics |-> metrics,
     commands |-> NoCommands]

\* The entities and resources at startup, the coverage cache left aside.
OrchInitButCache ==
    /\ radars = [r \in RadarIds |-> InitRadar(r)]
    /\ controller = InitController
    /\ radar_viewshed = [r \in RadarIds |-> None]
    /\ viewshed_task = [r \in RadarIds |-> None]
    /\ computing = EmptyBag
    /\ coverage_chunks = EmptyBag
    /\ metrics = [tiles_computed |-> 0, cache_hits |-> 0]
    /\ builds_started = [r \in RadarIds |-> 0]

OrchInit == OrchInitButCache /\ cache = <<>>

----------------------------------------------------------------------------
(* ui_panel_system *)

\* What the user does in a frame: nothing, or one change.
NoInput == [kind |-> "none", value |-> 0]
ShowCoverageInput == [kind |-> "show_coverage", value |-> 0]
TargetAglInput(agl) == [kind |-> "target_agl", value |-> agl]
RcsProfileInput(profile) == [kind |-> "rcs_profile", value |-> profile]

\* ui_panel_system: the checkbox; and, shown while coverage is on, the
\* "Target AGL" slider with its two buttons and the "Target RCS Profile" box.
UiPanelSystem(res, input) ==
    CASE input.kind = "show_coverage" ->
           [res EXCEPT !.controller.show_coverage = ~@]
      [] input.kind = "target_agl" /\ res.controller.show_coverage ->
           [res EXCEPT !.controller.target_agl = input.value]
      [] input.kind = "rcs_profile" /\ res.controller.show_coverage ->
           [res EXCEPT !.controller.rcs_profile = input.value]
      [] OTHER -> res

----------------------------------------------------------------------------
(* Viewshed builds *)

\* The guard below without its second half: the running build is not looked at.
NeedsViewshedIgnoringTask(r) == radar_viewshed[r] = None

\* update_radar_viewshed: "only compute if viewshed is missing AND not
\* already computing".
NeedsViewshed(r) == radar_viewshed[r] = None /\ viewshed_task[r] = None

\* update_radar_viewshed: spawns the build of every radar that needs one (the
\* task starts at once with a clone of the radar) and queues the insertion
\* of its ComputingViewshedTask.
UpdateRadarViewshed(res) ==
    [res EXCEPT !.commands.insert_task =
        [r \in RadarIds |->
            IF NeedsViewshed(r)
            THEN Some([viewshed |-> ViewshedOf(radars[r]), done |-> FALSE])
            ELSE @[r]]]

\* handle_viewshed_tasks that never takes a finished build over.
HandleViewshedTasksNever(res) == res

\* handle_viewshed_tasks: every finished build becomes the radar's
\* RadarViewshed and its task component is removed.
HandleViewshedTasks(res) ==
    [res EXCEPT !.commands.apply_viewshed =
        [r \in RadarIds |->
            IF viewshed_task[r] # None /\ TheOne(viewshed_task[r]).done
            THEN Some(TheOne(viewshed_task[r]).viewshed)
            ELSE @[r]]]

----------------------------------------------------------------------------
(* schedule_coverage_tasks *)

TileSeq == [i \in 1..NumTiles |-> i]
RadarSeq == [i \in 1..NumRadars |-> i]

HashOf(r, ctl) == RadarConfigHash(radars[r], ctl.target_agl, RcsValue(ctl.rcs_profile))

\* The chunks of radar r (by stable id) whose hash is not the current one:
\* "if hash mismatch, it's stale (old parameters) -> despawn".
StaleChunks(r, ctl) ==
    BagFilter(coverage_chunks,
              LAMBDA c : /\ c.radar_unique_id = RadarUniqueId(radars[r])
                         /\ c.radar_hash # HashOf(r, ctl))

\* The first `continue` of the tile loop alone: the jobs are not looked at.
AlreadyCoveredByChunk(lat_lon, radar_hash) ==
    \E c \in DOMAIN coverage_chunks : c.lat_lon = lat_lon /\ c.radar_hash = radar_hash

\* The two `continue`s of the tile loop: a chunk, or a job in flight, for
\* this tile and this radar hash.
AlreadyCovered(lat_lon, radar_hash) ==
    \/ \E c \in DOMAIN coverage_chunks : c.lat_lon = lat_lon /\ c.radar_hash = radar_hash
    \/ \E c \in DOMAIN computing : c.lat_lon = lat_lon /\ c.radar_hash = radar_hash

\* One turn of the tile loop for radar r: a cache hit spawns a task that
\* hands out the cached tile, a miss spawns compute_coverage_tile on clones
\* of the radar and of the viewshed.
ScheduleTile(res, r, lat_lon) ==
    LET radar == radars[r]
        target_agl == res.controller.target_agl
        target_rcs == RcsValue(res.controller.rcs_profile)
        radar_hash == RadarConfigHash(radar, target_agl, target_rcs)
        key == CoverageKey(lat_lon, target_agl, radar_hash)
        got == LruGet(res.cache, key)
        job(tile) == [lat_lon |-> lat_lon, target_agl |-> target_agl,
                      radar_hash |-> radar_hash,
                      radar_unique_id |-> RadarUniqueId(radar),
                      tile |-> tile, done |-> FALSE]
    IN  IF AlreadyCovered(lat_lon, radar_hash)
        THEN res
        ELSE IF got.tile # None
        THEN [res EXCEPT
                 !.cache = got.cache,
                 !.metrics.cache_hits = @ + 1,
                 !.commands.spawn_jobs = @ (+) BagOf(job(TheOne(got.tile)))]
        ELSE [res EXCEPT
                 !.cache = got.cache,
                 !.commands.spawn_jobs = @ (+) BagOf(job(
                     CoverageTileOf(radar, TheOne(radar_viewshed[r]), lat_lon,
                                    target_rcs, target_agl)))]

RECURSIVE ScheduleTiles(_, _, _)
ScheduleTiles(res, r, tiles) ==
    IF tiles = <<>> THEN res
    ELSE ScheduleTiles(ScheduleTile(res, r, Head(tiles)), r, Tail(tiles))

\* The radar loop: a radar without a viewshed is skipped; the stale chunks
\* of the others are despawned before their tiles are gone through.
RECURSIVE ScheduleRadars(_, _)
ScheduleRadars(res, rs) ==
    IF rs = <<>> THEN res
    ELSE LET r == Head(rs)
             next == IF radar_viewshed[r] = None
                     THEN res
                     ELSE ScheduleTiles(
                              [res EXCEPT !.commands.despawn_chunks =
                                              BagMax(@, StaleChunks(r, res.controller))],
                              r, TileSeq)
         IN  ScheduleRadars(next, Tail(rs))

ScheduleCoverageTasks(res) ==
    IF ~res.controller.show_coverage THEN res ELSE ScheduleRadars(res, RadarSeq)

----------------------------------------------------------------------------
(* handle_coverage_tasks *)

FinishedJobs == BagFilter(computing, LAMBDA j : j.done)

\* A chunk labelled with the parameters current when the job is handled.
ChunkOfCurrentParameters(job) ==
    [lat_lon |-> job.tile.lat_lon, target_agl |-> controller.target_agl,
     radar_hash |-> RadarConfigHash(job.tile.radar, controller.target_agl,
                                    RcsValue(controller.rcs_profile)),
     radar_unique_id |-> job.radar_unique_id,
     tile |-> job.tile]

\* The chunk spawned for a finished job.
ChunkOf(job) ==
    [lat_lon |-> job.tile.lat_lon, target_agl |-> job.target_agl,
     radar_hash |-> job.radar_hash, radar_unique_id |-> job.radar_unique_id,
     tile |-> job.tile]

\* The chunks spawned for the finished jobs, with their multiplicities.
RECURSIVE ChunksOf(_)
ChunksOf(jobs) ==
    IF DOMAIN jobs = {} THEN EmptyBag
    ELSE LET j == TheOne(DOMAIN jobs)
         IN  [c \in {ChunkOf(j)} |-> jobs[j]] (+) ChunksOf(jobs (-) [c \in {j} |-> jobs[j]])

\* cache.insert for every finished job, under the key rebuilt from the
\* ComputingCoverage component.
RECURSIVE InsertAll(_, _)
InsertAll(c, jobs) ==
    IF jobs = {} THEN c
    ELSE LET j == TheOne(jobs)
         IN  InsertAll(LruPut(c, CoverageKey(j.tile.lat_lon, j.target_agl, j.radar_hash),
                              j.tile, CacheCapacity),
                       jobs \ {j})

\* handle_coverage_tasks that, with coverage off, leaves the tasks running.
HandleCoverageTasksKeepJobs(res) ==
    IF ~res.controller.show_coverage
    THEN [res EXCEPT !.commands.despawn_chunks = BagMax(@, coverage_chunks)]
    ELSE [res EXCEPT
             !.metrics.tiles_computed = @ + BagCardinality(FinishedJobs),
             !.cache = InsertAll(@, DOMAIN FinishedJobs),
             !.commands.spawn_chunks = @ (+) ChunksOf(FinishedJobs),
             !.commands.despawn_jobs = BagMax(@, FinishedJobs)]

\* handle_coverage_tasks: with coverage off, every chunk and every task is
\* despawned; else every finished task is counted, cached, shown as a chunk
\* and despawned.
HandleCoverageTasks(res) ==
    IF ~res.controller.show_coverage
    THEN [res EXCEPT
             !.commands.despawn_chunks = BagMax(@, coverage_chunks),
             !.commands.despawn_jobs = BagMax(@, computing)]
    ELSE [res EXCEPT
             !.metrics.tiles_computed = @ + BagCardinality(FinishedJobs),
             !.cache = InsertAll(@, DOMAIN FinishedJobs),
             !.commands.spawn_chunks = @ (+) ChunksOf(FinishedJobs),
             !.commands.despawn_jobs = BagMax(@, FinishedJobs)]

----------------------------------------------------------------------------
(* One frame of the Update schedule *)

\* update_radar_viewshed and handle_viewshed_tasks read components and the
\* Radar only, which no system of the frame writes, and they only queue
\* Commands: they commute with every other system and are run first.  The
\* schedule orders the other three in any way.
OrderedSystems == {"ui_panel_system", "schedule_coverage_tasks", "handle_coverage_tasks"}
SystemOrders ==
    {<<a, b, c>> : a \in OrderedSystems, b \in OrderedSystems, c \in OrderedSystems}
        \cap {o \in Seq(OrderedSystems) : Len(o) = 3 /\ o[1] # o[2] /\ o[1] # o[3] /\ o[2] # o[3]}

RunSystem(system, res, input) ==
    CASE system = "ui_panel_system" -> UiPanelSystem(res, input)
      [] system = "schedule_coverage_tasks" -> ScheduleCoverageTasks(res)
      [] OTHER -> HandleCoverageTasks(res)

RECURSIVE RunSystems(_, _, _)
RunSystems(order, res, input) ==
    IF order = <<>> THEN res
    ELSE RunSystems(Tail(order), RunSystem(Head(order), res, input), input)

ApplyCommands(res) ==
    LET cmd == res.commands
    IN  /\ controller' = res.controller
        /\ cache' = res.cache
        /\ metrics' = res.metrics
        /\ viewshed_task' = [r \in RadarIds |->
               IF cmd.apply_viewshed[r] # None THEN None
               ELSE IF cmd.insert_task[r] # None THEN cmd.insert_task[r]
               ELSE viewshed_task[r]]
        /\ radar_viewshed' = [r \in RadarIds |->
               IF cmd.apply_viewshed[r] # None THEN cmd.apply_viewshed[r]
               ELSE radar_viewshed[r]]
        /\ computing' = (computing (-) cmd.despawn_jobs) (+) cmd.spawn_jobs
        /\ coverage_chunks' = (coverage_chunks (-) cmd.despawn_chunks) (+) cmd.spawn_chunks
        /\ builds_started' = [r \in RadarIds |->
               IF cmd.insert_task[r] # None THEN builds_started[r] + 1
               ELSE builds_started[r]]

\* The frame: the systems run, then the queued Commands are applied.
Frame(input, order) ==
    /\ \E res \in {RunSystems(order, HandleViewshedTasks(UpdateRadarViewshed(FrameStart)),
                              input)} :
           ApplyCommands(res)
    /\ UNCHANGED radars
    /\ UNCHANGED <<phys_vars, lib_vars>>

\* A frame without input.
IdleFrame ==
    /\ \E order \in SystemOrders : Frame(NoInput, order)
    /\ UNCHANGED changes

\* A frame in which the user ticks or clears "Show Coverage".
ToggleShowCoverage ==
    /\ changes.ui > 0
    /\ \E order \in SystemOrders : Frame(ShowCoverageInput, order)
    /\ changes' = [changes EXCEPT !.ui = @ - 1]

\* A frame in which the user moves the "Target AGL" slider.
SetTargetAgl(agl) ==
    /\ changes.ui > 0
    /\ controller.show_coverage
    /\ agl # controller.target_agl
    /\ \E order \in SystemOrders : Frame(TargetAglInput(agl), order)
    /\ changes' = [changes EXCEPT !.ui = @ - 1]

\* A frame in which the user picks another "Target RCS Profile".
SetRcsProfile(profile) ==
    /\ changes.ui > 0
    /\ controller.show_coverage
    /\ profile # controller.rcs_profile
    /\ \E order \in SystemOrders : Frame(RcsProfileInput(profile), order)
    /\ changes' = [changes EXCEPT !.ui = @ - 1]

----------------------------------------------------------------------------
(* Between frames *)

\* A viewshed build finishes on the worker pool.
ViewshedBuildFinishes(r) ==
    /\ viewshed_task[r] # None
    /\ ~TheOne(viewshed_task[r]).done
    /\ viewshed_task' = [viewshed_task EXCEPT ![r] = Some([TheOne(@) EXCEPT !.done = TRUE])]
    /\ UNCHANGED <<radars, controller, radar_viewshed, computing, coverage_chunks,
                   cache, metrics, builds_started, changes>>
    /\ UNCHANGED <<phys_vars, lib_vars>>

\* A coverage job finishes on the worker pool.
CoverageJobFinishes(job) ==
    /\ ~job.done
    /\ computing' = (computing (-) BagOf(job)) (+) BagOf([job EXCEPT !.done = TRUE])
    /\ UNCHANGED <<radars, controller, radar_viewshed, viewshed_task, coverage_chunks,
                   cache, metrics, builds_started, changes>>
    /\ UNCHANGED <<phys_vars, lib_vars>>

\* A change of one field of a Radar component (the fields are public; no
\* system of main.rs writes them, the change comes from outside).
EditRadar(r, f) ==
    /\ changes.radar > 0
    /\ radars' = [radars EXCEPT ![r] = [@ EXCEPT ![f] = ChangedValue(radars[r], f)]]
    /\ changes' = [changes EXCEPT !.radar = @ - 1]
    /\ UNCHANGED <<controller, radar_viewshed, viewshed_task, computing, coverage_chunks,
                   cache, metrics, builds_started>>
    /\ UNCHANGED <<phys_vars, lib_vars>>

----------------------------------------------------------------------------
(* Elevation angles.  atan(height_diff / dist) is kept as the signed square *)
(* of its tangent, a fraction p/q in lowest terms: atan and the signed      *)
(* square are strictly increasing, so the order and the equality of angles  *)
(* are those of the fractions.  -pi/2 and pi/2 are -1/0 and 1/0.            *)

RECURSIVE GCD(_, _)
GCD(a, b) == IF b = 0 THEN a ELSE GCD(b, a % b)

NegHalfPi == <<-1, 0>>
HalfPi == <<1, 0>>

\* (height_diff / dist).atan(), for dist > 0 with dist * dist = dist_sq cells.
Atan(height_diff, dist_sq) ==
    LET p == height_diff * Abs(height_diff)
        g == GCD(Abs(p), dist_sq)
    IN  <<p \div g, dist_sq \div g>>

AngleGT(a, b) ==
    IF a[2] = 0 /\ b[2] = 0 THEN a[1] > b[1] ELSE a[1] * b[2] > b[1] * a[2]

AngleGE(a, b) == ~AngleGT(b, a)

----------------------------------------------------------------------------
(* Viewshed: the grid and compute_viewshed *)

\* Viewshed::new: size = ceil(radius * 2 / cell_size) cells each way, every
\* cell at -pi/2.
Width == 2 * VsRadius
Cells == (0..(Width - 1)) \X (0..(Width - 1))
ViewshedNew == [c \in Cells |-> NegHalfPi]

\* compute_viewshed: center_x = width / 2, center_y = height / 2.
CenterX == Width \div 2
CenterY == Width \div 2

\* The curvature drop d^2 / (2 k R_E) at d * d = dist_sq cells: heights are
\* in the unit that makes it 12 / k per squared cell for k in thirds (4 for
\* k = 1, 3 for k = 4/3, 2 for k = 2).
DropUnit == 12
CurvatureDrop(dist_sq, k) == (dist_sq * DropUnit) \div k

\* The k_factor values gone through (4/3, the default, and 2), in thirds.
KFactorInputs == {4, 6}

\* The radar height cast_ray measures the ground from.
ViewshedRadarHeight(radar) == radar.altitude

\* cast_ray: the cells the Bresenham loop visits from (x, y) with error term
\* err on its way to (end_x, end_y).
RECURSIVE BresenhamFrom(_, _, _, _, _)
BresenhamFrom(x, y, err, end_x, end_y) ==
    IF x = end_x /\ y = end_y THEN << <<x, y>> >>
    ELSE LET dx == Abs(end_x - CenterX)
             dy == Abs(end_y - CenterY)
             sx == IF CenterX < end_x THEN 1 ELSE -1
             sy == IF CenterY < end_y THEN 1 ELSE -1
             e2 == 2 * err
             err1 == IF e2 > -dy THEN err - dy ELSE err
             x1 == IF e2 > -dy THEN x + sx ELSE x
             err2 == IF e2 < dx THEN err1 + dx ELSE err1
             y1 == IF e2 < dx THEN y + sy ELSE y
         IN  << <<x, y>> >> \o BresenhamFrom(x1, y1, err2, end_x, end_y)

\* The cells of the ray from the centre to the perimeter cell `end`.
RayPath(end) ==
    BresenhamFrom(CenterX, CenterY,
                  Abs(end[1] - CenterX) - Abs(end[2] - CenterY), end[1], end[2])

RayPaths == [end \in Cells |-> RayPath(end)]

\* cast_ray without its `dist == 0` case: the centre is given the angle of
\* (height_diff / 0).atan() like any other cell.
ProcessCellNoCentreCase(acc, cell, radar, ground, k) ==
    LET dist_sq == (cell[1] - CenterX) * (cell[1] - CenterX)
                   + (cell[2] - CenterY) * (cell[2] - CenterY)
        height_diff == ground[cell] - ViewshedRadarHeight(radar) - CurvatureDrop(dist_sq, k)
        angle == IF dist_sq > 0 THEN Atan(height_diff, dist_sq)
                 ELSE IF height_diff > 0 THEN HalfPi ELSE NegHalfPi
        max_angle == IF AngleGT(angle, acc.max_angle) THEN angle ELSE acc.max_angle
    IN  IF cell \notin Cells THEN acc
        ELSE IF dist_sq <= VsRadius * VsRadius
        THEN [max_angle |-> max_angle, map |-> [acc.map EXCEPT ![cell] = max_angle]]
        ELSE acc

\* cast_ray, the body of the loop at one cell: within the radius the running
\* maximum is raised by the angle to the ground there and stored; the centre
\* gets -pi/2; a cell beyond the radius is left alone.
ProcessCell(acc, cell, radar, ground, k) ==
    LET dist_sq == (cell[1] - CenterX) * (cell[1] - CenterX)
                   + (cell[2] - CenterY) * (cell[2] - CenterY)
        height_diff == ground[cell] - ViewshedRadarHeight(radar) - CurvatureDrop(dist_sq, k)
        angle == Atan(height_diff, dist_sq)
        max_angle == IF AngleGT(angle, acc.max_angle) THEN angle ELSE acc.max_angle
    IN  IF cell \notin Cells THEN acc
        ELSE IF dist_sq > 0 /\ dist_sq <= VsRadius * VsRadius
        THEN [max_angle |-> max_angle, map |-> [acc.map EXCEPT ![cell] = max_angle]]
        ELSE IF dist_sq = 0
        THEN [acc EXCEPT !.map[cell] = NegHalfPi]
        ELSE acc

RECURSIVE CastAlong(_, _, _, _, _)
CastAlong(acc, path, radar, ground, k) ==
    IF path = <<>> THEN acc
    ELSE CastAlong(ProcessCell(acc, Head(path), radar, ground, k), Tail(path),
                   radar, ground, k)

\* cast_ray: one ray, starting with max_angle = -pi/2.
CastRay(map, end, radar, ground, k) ==
    CastAlong([max_angle |-> NegHalfPi, map |-> map], RayPaths[end], radar, ground, k).map

\* A traversal of the top and bottom edges only.
PerimeterRaysTopBottom ==
    [i \in 1..(2 * Width) |->
        <<(i - 1) \div 2, IF (i - 1) % 2 = 0 THEN 0 ELSE Width - 1>>]

\* The perimeter traversal: for every x the cells (x, min_y) and (x, max_y),
\* then for every y the cells (min_x, y) and (max_x, y).
PerimeterRays ==
    [i \in 1..(4 * Width) |->
        LET j == (i - 1) % (2 * Width)
            along == j \div 2
            far == IF j % 2 = 0 THEN 0 ELSE Width - 1
        IN  IF i <= 2 * Width THEN <<along, far>> ELSE <<far, along>>]

\* compute_viewshed as a function: the rays of `order` cast one after the
\* other on a new grid (m is the map after the first ray of `order`).
RECURSIVE CastRays(_, _, _, _, _)
CastRays(map, order, radar, ground, k) ==
    IF order = <<>> THEN map
    ELSE TheOne({CastRays(m, Tail(order), radar, ground, k) :
                    m \in {CastRay(map, Head(order), radar, ground, k)}})

ComputeViewshedOf(order, radar, ground, k) == CastRays(ViewshedNew, order, radar, ground, k)

\* compute_viewshed: the next ray of the traversal is cast.
CastNextRay ==
    /\ rays_cast < Len(ray_order)
    /\ horizon_map' = CastRay(horizon_map, ray_order[rays_cast + 1],
                              phys_radar, terrain, k_factor)
    /\ rays_cast' = rays_cast + 1
    /\ UNCHANGED <<phys_radar, terrain, k_factor, ray_order, coverage_tile>>
    /\ UNCHANGED <<orch_vars, lib_vars>>

\* compute_viewshed has returned.
ViewshedBuilt == rays_cast = Len(ray_order)

----------------------------------------------------------------------------
(* compute_coverage_tile *)

\* A tile edge spans FullSize - 1 sample intervals; the model makes one
\* interval one viewshed cell.  The radar stands in tile (0, 0), half-way
\* between its western and eastern edges and two cells south of its northern
\* edge, so that the northern edge lies inside the viewshed grid (the radars
\* of setup_radars stand some 16 to 76 km south of the northern edge of their
\* tile, with a viewshed radius of 470 km).
TileCells == FullSize - 1
RadarEast == TileCells \div 2
RadarNorth == TileCells - 2

\* Viewshed::latlon_to_grid, for a point dx cells east and dy cells north of
\* the origin: its cell, or None outside the grid.
LatlonToGrid(dx, dy) ==
    LET x == CenterX + dx
        y == CenterY + dy
    IN  IF x < 0 \/ x >= Width \/ y < 0 \/ y >= Width THEN None ELSE Some(<<x, y>>)

\* Viewshed::get_horizon_angle
GetHorizonAngle(map, dx, dy) ==
    IF LatlonToGrid(dx, dy) = None THEN None ELSE Some(map[TheOne(LatlonToGrid(dx, dy))])

\* calculate_geodesic, the bearing in degrees, rounded down to a multiple of
\* 45: atan2(east, north), in (-180, 180].
BearingFloor45(dx, dy) ==
    CASE dx = 0 /\ dy >= 0 -> 0
      [] dx > 0 /\ dy > 0 -> IF dx < dy THEN 0 ELSE 45
      [] dx > 0 /\ dy = 0 -> 90
      [] dx > 0 /\ dy < 0 -> IF dx > -dy THEN 90 ELSE 135
      [] dx = 0 /\ dy < 0 -> 180
      [] dx < 0 /\ dy < 0 -> IF -dx < -dy THEN -180 ELSE -135
      [] dx < 0 /\ dy = 0 -> -90
      [] OTHER -> IF -dx > dy THEN -90 ELSE -45

\* An elevation angle in degrees, rounded down to a multiple of 90.
ElevationFloor90(angle) ==
    IF angle = HalfPi THEN 90 ELSE IF angle[1] >= 0 THEN 0 ELSE -90

\* The k of the coverage layer is 4/3, whatever the viewshed was built with.
CoverageK == 4

\* The radar height compute_coverage_tile measures the target from.
CoverageRadarHeight(radar) == radar.altitude

\* The margin (target_angle - horizon_angle).to_degrees() is kept as the pair
\* of the two angles; 0.0 is the pair of two zero angles.
ZeroMargin == << <<0, 1>>, <<0, 1>> >>
Margin(target_angle, horizon_angle) ==
    IF target_angle = horizon_angle THEN ZeroMargin ELSE <<target_angle, horizon_angle>>
MarginSign(m) == IF AngleGT(m[1], m[2]) THEN 1 ELSE IF AngleGT(m[2], m[1]) THEN -1 ELSE 0

\* The tile size at a step.
TileSize(step_size) == (FullSize + step_size - 1) \div step_size
Pixels(step_size) == (0..(TileSize(step_size) - 1)) \X (0..(TileSize(step_size) - 1))

Min(a, b) == IF a <= b THEN a ELSE b

\* The column of a pixel taken for its sample: the step is not applied.
PixelEastUnscaled(lon_idx, x, step_size) ==
    lon_idx * TileCells + Min(x, FullSize - 1) - RadarEast

\* Where pixel (x, y) of tile (lat_idx, lon_idx) lies, in cells east and
\* north of the radar: row 0 is the northern edge of the tile.
PixelEast(lon_idx, x, step_size) ==
    lon_idx * TileCells + Min(x * step_size, FullSize - 1) - RadarEast
PixelNorth(lat_idx, y, step_size) ==
    (lat_idx + 1) * TileCells - Min(y * step_size, FullSize - 1) - RadarNorth

\* The angle to the target over a pixel inside the grid, dx cells east and
\* dy cells north of the radar: pi/2 at the radar itself (dist <= 0.1).
TargetAngle(radar, ground, dx, dy, target_agl) ==
    LET dist_sq == dx * dx + dy * dy
        target_alt == ground[TheOne(LatlonToGrid(dx, dy))] + target_agl
        height_diff == target_alt - CoverageRadarHeight(radar)
                       - CurvatureDrop(dist_sq, CoverageK)
    IN  IF dist_sq > 0 THEN Atan(height_diff, dist_sq) ELSE HalfPi

\* TerrainManager::get_altitude: the tile a position is read from, by the
\* floors of its latitude and longitude.  The position is in cells north and
\* east of the south-west corner of tile (0, 0).
TileOfPosition(north, east) == <<north \div TileCells, east \div TileCells>>

\* The tile get_altitude reads the ground of pixel (x, y) of tile
\* (lat_idx, lon_idx) from: pixel_lat = lat_idx + 1 - orig_y / (full_size - 1),
\* pixel_lon = lon_idx + orig_x / (full_size - 1).
GroundTileOfPixel(lat_idx, lon_idx, x, y, step_size) ==
    TileOfPosition(PixelNorth(lat_idx, y, step_size) + RadarNorth,
                   PixelEast(lon_idx, x, step_size) + RadarEast)

\* The pixel loop without its range gate `if dist > max_range { continue; }`.
CoveragePixelNoRangeGate(radar, map, ground, dx, dy, max_range, target_agl) ==
    LET horizon == GetHorizonAngle(map, dx, dy)
        horizon_angle == TheOne(horizon)
        target_angle == TargetAngle(radar, ground, dx, dy, target_agl)
    IN  IF horizon = None THEN [data |-> 0, snr_margin |-> ZeroMargin]
        ELSE IF AngleGE(target_angle, horizon_angle)
        THEN [data |-> 1, snr_margin |-> Margin(target_angle, horizon_angle)]
        ELSE [data |-> 2, snr_margin |-> ZeroMargin]

\* The body of the pixel loop: the class and the margin of one pixel.
\* max_range is max_detection_range(radar, target_rcs), in cells.
CoveragePixel(radar, map, ground, dx, dy, max_range, target_agl) ==
    LET horizon == GetHorizonAngle(map, dx, dy)
        horizon_angle == TheOne(horizon)
        target_angle == TargetAngle(radar, ground, dx, dy, target_agl)
    IN  IF dx * dx + dy * dy > max_range * max_range
        THEN [data |-> 0, snr_margin |-> ZeroMargin]
        ELSE IF horizon = None THEN [data |-> 0, snr_margin |-> ZeroMargin]
        ELSE IF AngleGE(target_angle, horizon_angle)
        THEN [data |-> 1, snr_margin |-> Margin(target_angle, horizon_angle)]
        ELSE [data |-> 2, snr_margin |-> ZeroMargin]

\* compute_coverage_tile: data and snr_margin start at 0 and 0.0 and every
\* pixel is gone through once.  ground_tile keeps, for every pixel that got
\* as far as terrain_manager.get_altitude, the tile that call read.
ComputeCoverageTileOf(radar, map, ground, lat_idx, lon_idx, max_range, target_agl, step_size) ==
    LET px == [p \in Pixels(step_size) |->
                  CoveragePixel(radar, map, ground,
                                PixelEast(lon_idx, p[1], step_size),
                                PixelNorth(lat_idx, p[2], step_size),
                                max_range, target_agl)]
    IN  [lat_idx |-> lat_idx, lon_idx |-> lon_idx, size |-> TileSize(step_size),
         step_size |-> step_size, max_range |-> max_range, target_agl |-> target_agl,
         data |-> [p \in Pixels(step_size) |-> px[p].data],
         ground_tile |-> [p \in Pixels(step_size) |->
                            IF px[p].data = 0 THEN None
                            ELSE Some(GroundTileOfPixel(lat_idx, lon_idx, p[1], p[2],
                                                        step_size))],
         snr_margin |-> [p \in Pixels(step_size) |-> px[p].snr_margin]]

\* The inputs compute_coverage_tile is run with.
TileInputs == {<<0, 0>>, <<0, 1>>}
MaxRangeInputs == {2, VsRadius + 1}
PhysTargetAglInputs == {0, 5}
StepSizeInputs == {1, 2}

\* compute_coverage_tile on the finished viewshed (one call is followed).
ComputeCoverageTile(lat_lon, max_range, target_agl, step_size) ==
    /\ ViewshedBuilt
    /\ coverage_tile = None
    /\ coverage_tile' = Some(ComputeCoverageTileOf(phys_radar, horizon_map, terrain,
                                                   lat_lon[1], lat_lon[2],
                                                   max_range, target_agl, step_size))
    /\ UNCHANGED <<phys_radar, terrain, k_factor, horizon_map, ray_order, rays_cast>>
    /\ UNCHANGED <<orch_vars, lib_vars>>

----------------------------------------------------------------------------
(* The radars and terrains the physics is run on *)

RadarAltitudeInputs == {0, 10}
AntennaHeightInputs == {0, 5}
AzimuthSectorInputs == {None, Some(<<0, 90>>)}
ElevationSectorInputs == {None, Some(<<0, 90>>)}

PhysRadars ==
    [altitude : RadarAltitudeInputs, antenna_height_agl : AntennaHeightInputs,
     azimuth_sector : AzimuthSectorInputs, elevation_sector : ElevationSectorInputs]

\* Sea-level ground, and sea-level ground with one raised cell.
FlatTerrain == [c \in Cells |-> 0]
RidgeHeights == {MaxRidgeHeight \div 2, MaxRidgeHeight}
Terrains ==
    {FlatTerrain} \cup {[FlatTerrain EXCEPT ![c] = h] : c \in Cells, h \in RidgeHeights}

\* The physics before compute_viewshed is called: nothing to cast.
PhysIdle ==
    /\ phys_radar = [altitude |-> 0, antenna_height_agl |-> 0,
                     azimuth_sector |-> None, elevation_sector |-> None]
    /\ terrain = FlatTerrain
    /\ k_factor = CoverageK
    /\ horizon_map = ViewshedNew
    /\ ray_order = <<>>
    /\ rays_cast = 0
    /\ coverage_tile = None

\* compute_viewshed is entered: Viewshed::new has run, no ray is cast yet.
PhysInit(order) ==
    /\ phys_radar \in PhysRadars
    /\ terrain \in Terrains
    /\ k_factor \in KFactorInputs
    /\ horizon_map = ViewshedNew
    /\ ray_order = order
    /\ rays_cast = 0
    /\ coverage_tile = None

----------------------------------------------------------------------------
(* TerrainManager: the HGT loader and the LRU cache of terrain tiles.  The  *)
(* manager is shared by the threads of the task pool; the mutex of the cache *)
(* is held for the lookup and, after a miss, for the put, not in between.    *)

NumTerrainTiles == 3   \* tiles the threads ask for
TerrainCapacity == 2   \* cache_capacity handed to TerrainManager::new (main passes 50)
NumThreads == 2        \* threads calling get_altitude

\* The (lat, lon) keys of the tiles, and the calling threads.
TerrainKeys == {<<0, lon>> : lon \in 1..NumTerrainTiles}
Threads == 1..NumThreads

\* What load_tile finds at the path of a tile: no file, a file of the SRTM3
\* size, a file of another size, or a file that cannot be opened or read.
FileStates == {"absent", "hgt", "bad_size", "io_error"}

\* The ground of an HGT file that loads (one height stands for its samples).
HgtHeight == 7

\* A tile of FullSize x FullSize samples, all of them at `height`.
TerrainTile(key, height) ==
    [latitude |-> key[1], longitude |-> key[2], size |-> FullSize, height |-> height]

\* load_tile: Ok(tile) is Some(tile), Err(_) is None.  A missing file gives
\* a flat tile at sea level; an unexpected size and an I/O error give Err.
LoadTile(key, file) ==
    CASE file = "absent" -> Some(TerrainTile(key, 0))
      [] file = "hgt" -> Some(TerrainTile(key, HgtHeight))
      [] OTHER -> None

\* TerrainTile::sample
TileSample(tile) == tile.height

\* get_altitude with the Err of get_tile handed on as the SRTM void value.
GetAltitudeOfVoidOnErr(tile_result) ==
    IF tile_result = None THEN -32768 ELSE TileSample(TheOne(tile_result))

\* get_altitude, given what get_tile returned: the sample, or 0.0 on Err.
GetAltitudeOf(tile_result) ==
    IF tile_result = None THEN 0 ELSE TileSample(TheOne(tile_result))

\* key is one of the elements of s.
InSeq(s, key) == \E i \in 1..Len(s) : s[i] = key

\* The history of uses with `key` used last.
Touch(uses, key) == <<key>> \o SelectSeq(uses, LAMBDA k : k # key)

\* get_altitude calls get_tile, which looks the tile up under the lock: a hit
\* returns the cached tile (and counts as a use), a miss releases the lock
\* and goes on to load the tile.
GetAltitude(t, key) ==
    /\ terrain_calls[t] = None
    /\ \E res \in {LruGet(terrain_cache, key)} :
          IF res.tile # None
          THEN /\ terrain_cache' = res.cache
               /\ terrain_uses' = Touch(terrain_uses, key)
               /\ altitude_result' =
                      Some([key |-> key, altitude |-> GetAltitudeOf(res.tile),
                            source |-> "hit"])
               /\ UNCHANGED terrain_calls
          ELSE /\ terrain_calls' = [terrain_calls EXCEPT ![t] = Some(key)]
               /\ UNCHANGED <<terrain_cache, terrain_uses, altitude_result>>
    /\ UNCHANGED <<terrain_files, cancel, cache_uses, cache_log, cache_ops, los_call>>
    /\ UNCHANGED <<orch_vars, phys_vars>>

\* get_tile after a miss: load_tile runs without the lock, an Ok tile is put
\* in the cache under the lock, an Err is returned and get_altitude makes it 0.
GetTileLoad(t) ==
    /\ terrain_calls[t] # None
    /\ \E key \in terrain_calls[t] :
       \E loaded \in {LoadTile(key, terrain_files[key])} :
          /\ IF loaded # None
             THEN /\ terrain_cache' =
                         LruPut(terrain_cache, key, TheOne(loaded), TerrainCapacity)
                  /\ terrain_uses' = Touch(terrain_uses, key)
             ELSE UNCHANGED <<terrain_cache, terrain_uses>>
          /\ altitude_result' =
                 Some([key |-> key, altitude |-> GetAltitudeOf(loaded),
                       source |-> IF InSeq(terrain_uses, key) THEN "reload" ELSE "load"])
    /\ terrain_calls' = [terrain_calls EXCEPT ![t] = None]
    /\ UNCHANGED <<terrain_files, cancel, cache_uses, cache_log, cache_ops, los_call>>
    /\ UNCHANGED <<orch_vars, phys_vars>>

\* TerrainManager::new: an empty cache, no call under way; the files are as
\* they are.
TerrainInit ==
    /\ terrain_files \in [TerrainKeys -> FileStates]
    /\ terrain_cache = <<>>
    /\ terrain_uses = <<>>
    /\ terrain_calls = [t \in Threads |-> None]
    /\ altitude_result = None

\* The terrain manager left alone.
TerrainIdle ==
    /\ terrain_files = [key \in TerrainKeys |-> "absent"]
    /\ terrain_cache = <<>>
    /\ terrain_uses = <<>>
    /\ terrain_calls = [t \in Threads |-> None]
    /\ altitude_result = None

----------------------------------------------------------------------------
(* CoverageCache on its own: get, insert and clear called in any order on a *)
(* cache that is one entry short of its capacity.                           *)

MaxCacheOps == 4   \* calls made on the cache

\* The keys of the tiles (0, 1), (0, 2), ... of the first radar at startup.
CacheKeyOf(i) ==
    CoverageKey(<<0, i>>, InitController.target_agl,
                RadarConfigHash(InitRadar(1), InitController.target_agl,
                                RcsValue(InitController.rcs_profile)))

\* The Arc<CoverageTile> handed to insert: the tile of key i, as computed the
\* first time or computed again.
CacheTileVersions == {1, 2}
CacheTileOf(i, version) == [lat_lon |-> <<0, i>>, version |-> version]

\* The cache after tiles 1..n (n within the capacity) were inserted one after
\* the other: every put went to the front.
InsertedUpTo(n) ==
    [i \in 1..n |-> [key |-> CacheKeyOf(n + 1 - i), tile |-> CacheTileOf(n + 1 - i, 1)]]

\* The tiles the calls are about: the two oldest, the one that fills the
\* cache and the one after it.
CacheKeyInputs == {1, 2, CacheCapacity, CacheCapacity + 1}

NoCacheCall == [op |-> "new", key |-> None, tile |-> None, cleared |-> FALSE]

\* CoverageCache::get
CacheGet(i) ==
    /\ cache_ops > 0
    /\ cache_ops' = cache_ops - 1
    /\ \E res \in {LruGet(cache, CacheKeyOf(i))} :
          /\ cache' = res.cache
          /\ cache_uses' = IF res.tile # None THEN Touch(cache_uses, CacheKeyOf(i))
                           ELSE cache_uses
          /\ cache_log' = [op |-> "get", key |-> Some(CacheKeyOf(i)), tile |-> res.tile,
                           cleared |-> cache_log.cleared]
    /\ UNCHANGED <<radars, controller, radar_viewshed, viewshed_task, computing,
                   coverage_chunks, metrics, builds_started, changes>>
    /\ UNCHANGED <<cancel, terrain_files, terrain_cache, terrain_uses, terrain_calls,
                   altitude_result, los_call>>
    /\ UNCHANGED phys_vars

\* CoverageCache::insert
CacheInsert(i, version) ==
    /\ cache_ops > 0
    /\ cache_ops' = cache_ops - 1
    /\ cache' = LruPut(cache, CacheKeyOf(i), CacheTileOf(i, version), CacheCapacity)
    /\ cache_uses' = Touch(cache_uses, CacheKeyOf(i))
    /\ cache_log' = [op |-> "insert", key |-> Some(CacheKeyOf(i)),
                     tile |-> Some(CacheTileOf(i, version)), cleared |-> FALSE]
    /\ UNCHANGED <<radars, controller, radar_viewshed, viewshed_task, computing,
                   coverage_chunks, metrics, builds_started, changes>>
    /\ UNCHANGED <<cancel, terrain_files, terrain_cache, terrain_uses, terrain_calls,
                   altitude_result, los_call>>
    /\ UNCHANGED phys_vars

\* CoverageCache::clear
CacheClear ==
    /\ cache_ops > 0
    /\ cache_ops' = cache_ops - 1
    /\ cache' = <<>>
    /\ cache_log' = [op |-> "clear", key |-> None, tile |-> None, cleared |-> TRUE]
    /\ UNCHANGED cache_uses
    /\ UNCHANGED <<radars, controller, radar_viewshed, viewshed_task, computing,
                   coverage_chunks, metrics, builds_started, changes>>
    /\ UNCHANGED <<cancel, terrain_files, terrain_cache, terrain_uses, terrain_calls,
                   altitude_result, los_call>>
    /\ UNCHANGED phys_vars

\* The cache left alone.
CacheIdle ==
    /\ cache_uses = <<>>
    /\ cache_log = NoCacheCall
    /\ cache_ops = 0

----------------------------------------------------------------------------
(* Stopping a viewshed build *)

\* The owner of the build under way asks for it to stop.  compute_viewshed
\* is handed the radar, the terrain, the range, k and the progress counter:
\* nothing of the build reads the request.
RequestCancel ==
    /\ ~cancel
    /\ rays_cast < Len(ray_order)
    /\ cancel' = TRUE
    /\ UNCHANGED <<terrain_files, terrain_cache, terrain_uses, terrain_calls,
                   altitude_result, cache_uses, cache_log, cache_ops, los_call>>
    /\ UNCHANGED <<orch_vars, phys_vars>>

----------------------------------------------------------------------------
(* LosSystem::check_visibility.  Distances are in half steps (50 m), heights *)
(* in the unit of the viewshed; the ground is known every half step.         *)

MaxLosDist == 7    \* farthest target, in half steps

\* dist_m: 0 stands for a target less than 1 m away.
LosDistInputs == 0..MaxLosDist

\* TerrainProvider::get_altitude along the path, by distance from the radar.
LosGroundInputs == {0, MaxRidgeHeight}
LosProfiles == [1..MaxLosDist -> LosGroundInputs]

LosRadars == [altitude : RadarAltitudeInputs, antenna_height_agl : AntennaHeightInputs]

\* steps = (dist_m / step_size_m).ceil(), with step_size_m two half steps.
LosSteps(dist) == (dist + 1) \div 2

\* The body of the loop with the distance of the sample left out.
LosSampleNoObstruction(acc, i, profile, h_radar, k) ==
    LET d == 2 * i
        h_eff == profile[d] - CurvatureDrop(d * d, k)
        angle == Atan(h_eff - h_radar, d * d)
    IN  IF AngleGT(angle, acc.max_angle)
        THEN [max_angle |-> angle, obstruction_dist |-> acc.obstruction_dist]
        ELSE acc

\* The body of the loop, at sample i: d = i * step_size_m.
LosSample(acc, i, profile, h_radar, k) ==
    LET d == 2 * i
        h_eff == profile[d] - CurvatureDrop(d * d, k)
        angle == Atan(h_eff - h_radar, d * d)
    IN  IF AngleGT(angle, acc.max_angle)
        THEN [max_angle |-> angle, obstruction_dist |-> Some(d)]
        ELSE acc

\* for i in 1..steps
RECURSIVE LosLoop(_, _, _, _, _, _)
LosLoop(acc, i, steps, profile, h_radar, k) ==
    IF i >= steps THEN acc
    ELSE LosLoop(LosSample(acc, i, profile, h_radar, k), i + 1, steps, profile, h_radar, k)

\* margin_deg of a target less than 1 m away: 90.0.
LosMarginNinety == <<HalfPi, <<0, 1>>>>

\* margin > epsilon, for the margin target_angle - max_angle kept as the pair
\* of the two angles: `near` says that a margin above 0 is not above epsilon
\* (1e-4 rad).  With no sample taken max_angle is still -pi/2, and the margin
\* of a target that is not straight below the radar is far above epsilon.
MarginAboveEpsilon(target_angle, max_angle, near) ==
    AngleGT(target_angle, max_angle) /\ (max_angle = NegHalfPi \/ ~near)

\* check_visibility with the horizontal for the first max_angle.
CheckVisibilityFromHorizontal(radar, dist, target_agl, profile, k, near) ==
    LET h_radar == radar.altitude + radar.antenna_height_agl
        h_target_amsl == profile[dist] + target_agl
        loop == LosLoop([max_angle |-> <<0, 1>>, obstruction_dist |-> None],
                        1, LosSteps(dist), profile, h_radar, k)
        h_tgt_eff == h_target_amsl - CurvatureDrop(dist * dist, k)
        target_angle == Atan(h_tgt_eff - h_radar, dist * dist)
    IN  IF dist = 0
        THEN [is_visible |-> TRUE, margin |-> LosMarginNinety, obstruction_dist_m |-> None]
        ELSE IF MarginAboveEpsilon(target_angle, loop.max_angle, near)
        THEN [is_visible |-> TRUE, margin |-> <<target_angle, loop.max_angle>>,
              obstruction_dist_m |-> None]
        ELSE [is_visible |-> FALSE, margin |-> <<target_angle, loop.max_angle>>,
              obstruction_dist_m |-> loop.obstruction_dist]

\* check_visibility.
CheckVisibilityOf(radar, dist, target_agl, profile, k, near) ==
    LET h_radar == radar.altitude + radar.antenna_height_agl
        h_target_amsl == profile[dist] + target_agl
        loop == LosLoop([max_angle |-> NegHalfPi, obstruction_dist |-> None],
                        1, LosSteps(dist), profile, h_radar, k)
        h_tgt_eff == h_target_amsl - CurvatureDrop(dist * dist, k)
        target_angle == Atan(h_tgt_eff - h_radar, dist * dist)
    IN  IF dist = 0
        THEN [is_visible |-> TRUE, margin |-> LosMarginNinety, obstruction_dist_m |-> None]
        ELSE IF MarginAboveEpsilon(target_angle, loop.max_angle, near)
        THEN [is_visible |-> TRUE, margin |-> <<target_angle, loop.max_angle>>,
              obstruction_dist_m |-> None]
        ELSE [is_visible |-> FALSE, margin |-> <<target_angle, loop.max_angle>>,
              obstruction_dist_m |-> loop.obstruction_dist]

\* One call of check_visibility is followed.
CheckVisibility(radar, dist, target_agl, profile, k, near) ==
    /\ los_call = None
    /\ los_call' = Some([radar |-> radar, dist |-> dist, target_agl |-> target_agl,
                         profile |-> profile, k |-> k, near |-> near,
                         result |-> CheckVisibilityOf(radar, dist, target_agl,
                                                      profile, k, near)])
    /\ UNCHANGED <<cancel, terrain_files, terrain_cache, terrain_uses, terrain_calls,
                   altitude_result, cache_uses, cache_log, cache_ops>>
    /\ UNCHANGED <<orch_vars, phys_vars>>

----------------------------------------------------------------------------

\* Nothing but the state machine under study runs.
LibIdle ==
    /\ cancel = FALSE
    /\ TerrainIdle
    /\ CacheIdle
    /\ los_call = None

----------------------------------------------------------------------------

FrameNext ==
    \/ IdleFrame
    \/ ToggleShowCoverage
    \/ \E agl \in TargetAglInputs : SetTargetAgl(agl)
    \/ \E profile \in RcsInputs : SetRcsProfile(profile)

TaskNext ==
    \/ \E r \in RadarIds : ViewshedBuildFinishes(r)
    \/ \E job \in DOMAIN computing : CoverageJobFinishes(job)

\* The orchestrator as main.rs runs it: the parameters change through the UI.
Init == OrchInit /\ changes = [ui |-> MaxChanges, radar |-> 0] /\ PhysIdle /\ LibIdle
Next == FrameNext \/ TaskNext
Spec == Init /\ [][Next]_vars

\* The orchestrator with its scheduling: the Update schedule runs frame after
\* frame, and the task pool runs every task it was given to its end (a build
\* or a job that stays unfinished is eventually finished).
Fairness ==
    /\ WF_vars(IdleFrame)
    /\ \A r \in RadarIds : WF_vars(ViewshedBuildFinishes(r))
    /\ WF_vars(\E job \in DOMAIN computing : CoverageJobFinishes(job))
InitLive == OrchInit /\ changes = [ui |-> MaxLiveChanges, radar |-> 0] /\ PhysIdle /\ LibIdle
SpecLive == InitLive /\ [][Next]_vars /\ Fairness

\* The orchestrator with changes made to the Radar components, the UI being
\* used to switch the coverage on and off only.
InitEdit ==
    /\ OrchInit /\ changes = [ui |-> MaxUiChangesWithEdit, radar |-> MaxRadarEdits]
    /\ PhysIdle /\ LibIdle
NextEdit ==
    \/ IdleFrame
    \/ ToggleShowCoverage
    \/ TaskNext
    \/ \E r \in RadarIds, f \in RadarFields : EditRadar(r, f)
SpecEdit == InitEdit /\ [][NextEdit]_vars

\* compute_viewshed as the code runs it, then compute_coverage_tile on its
\* result, the orchestrator standing still.
OrchIdle == OrchInit /\ changes = [ui |-> 0, radar |-> 0]
InitPhysics == OrchIdle /\ PhysInit(PerimeterRays) /\ LibIdle
NextPhysics ==
    \/ CastNextRay
    \/ \E lat_lon \in TileInputs, max_range \in MaxRangeInputs,
          target_agl \in PhysTargetAglInputs, step_size \in StepSizeInputs :
           ComputeCoverageTile(lat_lon, max_range, target_agl, step_size)
SpecPhysics == InitPhysics /\ [][NextPhysics]_vars

\* compute_viewshed with the same rays cast in the code's order, in the
\* reverse of it, or with the left and right edges before the top and bottom.
Reversed(order) == [i \in 1..Len(order) |-> order[Len(order) + 1 - i]]
EdgesSwapped(order) ==
    SubSeq(order, Len(order) \div 2 + 1, Len(order)) \o SubSeq(order, 1, Len(order) \div 2)
RayOrders == {PerimeterRays, Reversed(PerimeterRays), EdgesSwapped(PerimeterRays)}
InitRayOrder == OrchIdle /\ LibIdle /\ \E order \in RayOrders : PhysInit(order)
NextRayOrder == CastNextRay
SpecRayOrder == InitRayOrder /\ [][NextRayOrder]_vars

\* get_altitude called from the threads of the pool, on the files as found.
InitTerrain ==
    /\ OrchIdle /\ PhysIdle
    /\ cancel = FALSE /\ CacheIdle /\ los_call = None
    /\ TerrainInit
NextTerrain ==
    \/ \E t \in Threads, key \in TerrainKeys : GetAltitude(t, key)
    \/ \E t \in Threads : GetTileLoad(t)
SpecTerrain == InitTerrain /\ [][NextTerrain]_vars

\* The coverage cache called in any order, starting one entry short of full.
InitCache ==
    /\ OrchInitButCache /\ changes = [ui |-> 0, radar |-> 0] /\ PhysIdle
    /\ cancel = FALSE /\ TerrainIdle /\ los_call = None
    /\ cache = InsertedUpTo(CacheCapacity - 1)
    /\ cache_uses = [i \in 1..(CacheCapacity - 1) |-> CacheKeyOf(CacheCapacity - i)]
    /\ cache_log = NoCacheCall
    /\ cache_ops = MaxCacheOps
NextCache ==
    \/ \E i \in CacheKeyInputs : CacheGet(i)
    \/ \E i \in CacheKeyInputs, version \in CacheTileVersions : CacheInsert(i, version)
    \/ CacheClear
SpecCache == InitCache /\ [][NextCache]_vars

\* A viewshed build on flat ground that its owner may ask to stop.
InitCancel ==
    /\ OrchIdle /\ PhysInit(PerimeterRays) /\ LibIdle
    /\ terrain = FlatTerrain
NextCancel ==
    \/ CastNextRay
    \/ RequestCancel
SpecCancel == InitCancel /\ [][NextCancel]_vars

\* One call of check_visibility.
InitLos == OrchIdle /\ PhysIdle /\ LibIdle
NextLos ==
    /\ los_call = None
    /\ \E radar \in LosRadars, dist \in LosDistInputs, target_agl \in PhysTargetAglInputs,
          profile \in LosProfiles, k \in KFactorInputs, near \in BOOLEAN :
           CheckVisibility(radar, dist, target_agl, profile, k, near)
SpecLos == InitLos /\ [][NextLos]_vars

----------------------------------------------------------------------------
(* Properties of the orchestrator *)

\* The chunks on display that belong to a radar (by stable id) and carry
\* another hash than that radar's current one.
StaleDisplayed ==
    {c \in DOMAIN coverage_chunks :
        \E r \in RadarIds : /\ c.radar_unique_id = RadarUniqueId(radars[r])
                            /\ c.radar_hash # CurrentHash(r)}

\* The coverage jobs still running.
InFlightJobs == BagFilter(computing, LAMBDA j : ~j.done)

\* The radars that have a viewshed.
RadarsWithViewshed == {r \in RadarIds : radar_viewshed[r] # None}

\* C2: whenever one of name, latitude, longitude, altitude, frequency, power,
\* gain, system loss or SNR threshold of a radar changes, or the target AGL
\* or the target RCS changes, the radar_config_hash of the radar changes.
C2_HashChangesWithEveryParameter ==
    [][\A r \in RadarIds :
          (\/ radars'[r] # radars[r]
           \/ controller'.target_agl # controller.target_agl
           \/ RcsValue(controller'.rcs_profile) # RcsValue(controller.rcs_profile))
          => CurrentHash(r)' # CurrentHash(r)]_vars

\* C3: with coverage enabled, no chunk on display carries a hash other than
\* the current hash of its radar; the chunks change in frames only, so this
\* is the state every tick leaves behind.
C3_NoStaleChunkDisplayed ==
    controller.show_coverage => StaleDisplayed = {}

\* C4: when one tile has been produced (one cache entry), requested a second
\* time with the same parameters and served from the cache (one hit), and
\* every job has been handled, tiles_computed stands at one.
C4_ComputedOnceHitOnce ==
    (Len(cache) = 1 /\ metrics.cache_hits = 1 /\ computing = EmptyBag)
        => metrics.tiles_computed = 1

\* C5: the coverage jobs in flight are never more than the tiles of the
\* active window, counted once per radar that has a viewshed.
C5_JobsBoundedByRequiredTiles ==
    BagCardinality(InFlightJobs) <= NumTiles * Cardinality(RadarsWithViewshed)

\* C6: a radar has had one build started when it has a viewshed or is
\* computing one, and none otherwise: no second build is ever started, so
\* at most one is in flight.
C6_OneViewshedBuildPerRadar ==
    \A r \in RadarIds :
        builds_started[r] =
            IF radar_viewshed[r] # None \/ viewshed_task[r] # None THEN 1 ELSE 0

\* C6, reached: every radar has its viewshed from its only build, and frames
\* have gone by since (a coverage tile has been computed from it).
C6_Witness ==
    /\ \A r \in RadarIds : radar_viewshed[r] # None /\ builds_started[r] = 1
    /\ metrics.tiles_computed > 0

\* The chunks on display whose raster was computed for another target
\* altitude than the current one.
AglStaleDisplayed ==
    {c \in DOMAIN coverage_chunks : c.tile.target_agl # controller.target_agl}

\* Tile lat_lon of radar r is on display or being produced, computed for the
\* current target altitude.
CoveredAtCurrentAgl(r, lat_lon) ==
    \E c \in (DOMAIN coverage_chunks) \cup (DOMAIN computing) :
        /\ c.tile.lat_lon = lat_lon
        /\ c.radar_unique_id = RadarUniqueId(radars[r])
        /\ c.tile.target_agl = controller.target_agl

\* C15: once the target AGL has changed, a frame run with coverage on and no
\* further input drops every chunk that was displayed for the previous AGL
\* (the only chunks for it left are those of jobs that finish in that frame),
\* serves no cached tile of the previous AGL, and leaves every tile of every
\* radar with a viewshed displayed or being computed for the new AGL.
C15_TargetAglChangeInvalidates ==
    [][(controller.show_coverage /\ controller' = controller /\ ~TaskNext)
          => /\ \A c \in AglStaleDisplayed :
                   CopiesIn(c, coverage_chunks') <= CopiesIn(c, ChunksOf(FinishedJobs))
             /\ \A r \in RadarsWithViewshed, i \in 1..NumTiles :
                   CoveredAtCurrentAgl(r, TileSeq[i])'
             /\ \A j \in DOMAIN computing' : j.tile.target_agl = j.target_agl]_vars

\* C15, reached: the target AGL was moved from 50 m to 51 m with a tile on
\* display; the tile is now displayed for 51 m only, both tiles were
\* computed, both are cached under their own keys and none was served.
C15_Witness ==
    /\ controller.show_coverage
    /\ controller.target_agl = InitController.target_agl + 2
    /\ AglStaleDisplayed = {}
    /\ \E c \in DOMAIN coverage_chunks : c.radar_unique_id = RadarUniqueId(radars[1])
    /\ \E e1, e2 \in {cache[i] : i \in 1..Len(cache)} :
          /\ e1.key.lat_lon = e2.key.lat_lon
          /\ e1.tile.radar = radars[1] /\ e2.tile.radar = radars[1]
          /\ e1.tile.target_agl = InitController.target_agl
          /\ e2.tile.target_agl = controller.target_agl
    /\ metrics.cache_hits = 0

\* The radar hash and the cache key of the values a raster was computed from.
HashOfTile(tile) == RadarConfigHash(tile.radar, tile.target_agl, tile.target_rcs)
KeyOfTile(tile) == CoverageKey(tile.lat_lon, tile.target_agl, HashOfTile(tile))

\* C16: a job carries the tile, the target AGL and the radar hash of the
\* values captured when it was scheduled, which are the values its raster is
\* computed from; its result is cached and displayed under that key, whatever
\* the parameters have become in the meantime.
C16_ResultUnderScheduledKey ==
    /\ \A j \in DOMAIN computing :
          j.target_agl = j.tile.target_agl /\ j.radar_hash = HashOfTile(j.tile)
    /\ \A i \in 1..Len(cache) : cache[i].key = KeyOfTile(cache[i].tile)
    /\ \A c \in DOMAIN coverage_chunks :
          /\ c.lat_lon = c.tile.lat_lon
          /\ c.target_agl = c.tile.target_agl
          /\ c.radar_hash = HashOfTile(c.tile)

\* C16, reached: the target parameters changed while a job was in flight;
\* its result is on display and in the cache under the key it was scheduled
\* with, which is not the current one.
C16_Witness ==
    \E c \in DOMAIN coverage_chunks :
        /\ \E r \in RadarIds : /\ c.radar_unique_id = RadarUniqueId(radars[r])
                               /\ c.radar_hash # CurrentHash(r)
                               /\ c.tile.radar = radars[r]
        /\ \E i \in 1..Len(cache) : cache[i].key = KeyOfTile(c.tile)
        /\ \A i \in 1..Len(cache) : cache[i].key.radar_hash = c.radar_hash

----------------------------------------------------------------------------
(* Properties of the physics *)

PerimeterCells == {c \in Cells : c[1] \in {0, Width - 1} \/ c[2] \in {0, Width - 1}}

\* C1: once compute_viewshed has returned, the horizon_map values read along
\* the Bresenham path from the centre to any perimeter cell never decrease.
C1_MonotoneAlongRays ==
    ViewshedBuilt =>
        \A end \in PerimeterCells :
            \A i \in 1..(Len(RayPaths[end]) - 1) :
                AngleGE(horizon_map[RayPaths[end][i + 1]], horizon_map[RayPaths[end][i]])

\* C7: whatever the order the perimeter rays were cast in, the finished
\* horizon_map is the one the code's order gives for that radar and terrain.
C7_RayOrderIndependent ==
    ViewshedBuilt =>
        horizon_map = ComputeViewshedOf(PerimeterRays, phys_radar, terrain, k_factor)

\* The pixels of the tile last produced, and their place relative to the radar.
TilePixels == Pixels(TheOne(coverage_tile).step_size)
PixelDx(p) == PixelEast(TheOne(coverage_tile).lon_idx, p[1], TheOne(coverage_tile).step_size)
PixelDy(p) == PixelNorth(TheOne(coverage_tile).lat_idx, p[2], TheOne(coverage_tile).step_size)

\* C8: in a tile produced by compute_coverage_tile the margin is >= 0 at
\* every visible pixel (1) and < 0 at every shadowed pixel (2).
C8_MarginSignMatchesClass ==
    coverage_tile # None =>
        \A p \in TilePixels :
            /\ TheOne(coverage_tile).data[p] = 1
                   => MarginSign(TheOne(coverage_tile).snr_margin[p]) >= 0
            /\ TheOne(coverage_tile).data[p] = 2
                   => MarginSign(TheOne(coverage_tile).snr_margin[p]) < 0

\* The radar height of the specification.
EffectiveHeight(radar) == radar.altitude + radar.antenna_height_agl

\* The first cell east of the centre: every ray through it comes straight
\* from the centre, so it holds the angle to its own ground.
EastOfCentre == <<CenterX + 1, CenterY>>

\* C9: the viewshed and the coverage evaluator both measure from
\* altitude + antenna_height_agl: the horizon next to the radar is the angle
\* from that height to the ground there, and the target angle behind a
\* non-zero margin is the angle from that height to the target.
C9_RadarHeightIncludesAntenna ==
    /\ ViewshedBuilt =>
           horizon_map[EastOfCentre] =
               Atan(terrain[EastOfCentre] - EffectiveHeight(phys_radar)
                        - CurvatureDrop(1, k_factor), 1)
    /\ coverage_tile # None =>
           \A p \in TilePixels :
               (/\ TheOne(coverage_tile).data[p] = 1
                /\ TheOne(coverage_tile).snr_margin[p] # ZeroMargin
                /\ PixelDx(p) * PixelDx(p) + PixelDy(p) * PixelDy(p) > 0)
               => TheOne(coverage_tile).snr_margin[p][1] =
                      Atan(terrain[TheOne(LatlonToGrid(PixelDx(p), PixelDy(p)))]
                               + TheOne(coverage_tile).target_agl
                               - EffectiveHeight(phys_radar)
                               - CurvatureDrop(PixelDx(p) * PixelDx(p)
                                                   + PixelDy(p) * PixelDy(p), CoverageK),
                           PixelDx(p) * PixelDx(p) + PixelDy(p) * PixelDy(p))

\* value lies in the half-open interval of the sector, if there is one.
InSector(sector, value) ==
    sector = None \/ (TheOne(sector)[1] <= value /\ value < TheOne(sector)[2])

\* The pixel's bearing is outside the azimuth sector, or its elevation angle
\* (known inside the grid) is outside the elevation sector.
OutsideSector(p) ==
    \/ ~InSector(phys_radar.azimuth_sector, BearingFloor45(PixelDx(p), PixelDy(p)))
    \/ /\ LatlonToGrid(PixelDx(p), PixelDy(p)) # None
       /\ ~InSector(phys_radar.elevation_sector,
                    ElevationFloor90(TargetAngle(phys_radar, terrain, PixelDx(p), PixelDy(p),
                                                 TheOne(coverage_tile).target_agl)))

\* C10: a pixel whose bearing or elevation angle is outside a sector the
\* radar defines is classified 0.
C10_OutsideSectorIsOutOfRange ==
    coverage_tile # None =>
        \A p \in TilePixels : OutsideSector(p) => TheOne(coverage_tile).data[p] = 0

\* The cells a ray visits.
CellsOf(path) == {path[i] : i \in 1..Len(path)}

\* The cells visited by the rays cast so far.
VisitedCells == UNION {CellsOf(RayPaths[ray_order[i]]) : i \in 1..rays_cast}

\* C13: once compute_viewshed has returned, every cell of the grid has been
\* visited by the Bresenham ray from the centre to some perimeter cell.
C13_EveryCellVisited ==
    ViewshedBuilt => VisitedCells = Cells

\* C13, reached: the whole perimeter traversal has been cast, and the rays
\* cast before the last one had left cells unvisited.
C13_Witness ==
    /\ ViewshedBuilt
    /\ rays_cast = 4 * Width
    /\ UNION {CellsOf(RayPaths[ray_order[i]]) : i \in 1..(Width \div 2)} # Cells

\* The squared distance of pixel p from the radar, in cells.
PixelDistSq(p) == PixelDx(p) * PixelDx(p) + PixelDy(p) * PixelDy(p)

\* The squared range the tile last produced was computed for.
MaxRangeSq == TheOne(coverage_tile).max_range * TheOne(coverage_tile).max_range

\* C17: a pixel of a coverage tile is non-zero only if it lies within the
\* detection range of the radar and inside the viewshed grid: every pixel
\* beyond the range or outside the grid is 0.
C17_NonZeroOnlyInRangeAndGrid ==
    coverage_tile # None =>
        \A p \in TilePixels :
            TheOne(coverage_tile).data[p] # 0
                => /\ PixelDistSq(p) <= MaxRangeSq
                   /\ LatlonToGrid(PixelDx(p), PixelDy(p)) # None

\* C17, reached: a tile with a classified pixel, a pixel of the grid beyond
\* the range and a pixel within the range outside the grid, both 0.
C17_Witness ==
    /\ coverage_tile # None
    /\ \E p \in TilePixels : TheOne(coverage_tile).data[p] # 0
    /\ \E p \in TilePixels : /\ PixelDistSq(p) > MaxRangeSq
                             /\ LatlonToGrid(PixelDx(p), PixelDy(p)) # None
                             /\ TheOne(coverage_tile).data[p] = 0
    /\ \E p \in TilePixels : /\ PixelDistSq(p) <= MaxRangeSq
                             /\ LatlonToGrid(PixelDx(p), PixelDy(p)) = None
                             /\ TheOne(coverage_tile).data[p] = 0

\* C18: the horizon_map of a viewshed compute_viewshed returns holds -pi/2
\* at the centre cell (width / 2, height / 2), whatever the terrain.
C18_CentreIsNegHalfPi ==
    ViewshedBuilt => horizon_map[<<CenterX, CenterY>>] = NegHalfPi

\* C18, reached: a viewshed built over ground that rises above the radar at
\* the centre cell itself.
C18_Witness ==
    /\ ViewshedBuilt
    /\ rays_cast > 0
    /\ terrain[<<CenterX, CenterY>>] > ViewshedRadarHeight(phys_radar)

----------------------------------------------------------------------------
(* Properties of the caches, the terrain manager and the line of sight *)

\* The keys an LRU cache holds.
CachedKeys(c) == {c[i].key : i \in 1..Len(c)}

\* The tile an LRU cache holds under a key (or None), the order untouched.
Peek(c, key) == {c[i].tile : i \in LruIndex(c, key)}

\* Of the keys the cache holds, the one whose last use is the oldest.
LeastRecentlyUsed(c, uses) ==
    uses[CHOOSE i \in 1..Len(uses) :
            /\ uses[i] \in CachedKeys(c)
            /\ \A j \in (i + 1)..Len(uses) : uses[j] \notin CachedKeys(c)]

\* C11: the terrain cache never holds more tiles than the configured
\* capacity, and a tile leaves it only when a missed tile is put in the full
\* cache, the tile that leaves being the least recently used one (a hit
\* counts as a use).
C11_TerrainCacheBoundedLru ==
    [][/\ Len(terrain_cache') <= TerrainCapacity
       /\ \A key \in CachedKeys(terrain_cache') \ CachedKeys(terrain_cache) :
             Len(terrain_cache) = TerrainCapacity
                 => CachedKeys(terrain_cache') =
                        (CachedKeys(terrain_cache)
                             \ {LeastRecentlyUsed(terrain_cache, terrain_uses)})
                        \cup {key}
       /\ \A key \in CachedKeys(terrain_cache) \ CachedKeys(terrain_cache') :
             key = LeastRecentlyUsed(terrain_cache, terrain_uses)]_vars

\* C11, reached: the cache is full, a tile has been evicted from it, and the
\* tile put first is still there because a hit made it the most recent one.
C11_Witness ==
    /\ Len(terrain_cache) = TerrainCapacity
    /\ \E key \in TerrainKeys :
          /\ key \notin CachedKeys(terrain_cache)
          /\ \E i \in 1..Len(terrain_uses) : terrain_uses[i] = key
    /\ <<0, 1>> \in CachedKeys(terrain_cache)
    /\ <<0, NumTerrainTiles>> \in CachedKeys(terrain_cache)
    /\ terrain_uses = <<<<0, 1>>, <<0, NumTerrainTiles>>, <<0, 2>>>>

\* C12: the coverage cache never holds more than 100 entries; an insert
\* under a key it holds replaces the tile and does not grow it; an insert
\* under a new key into the full cache evicts the least recently used entry
\* (a get counts as a use); after clear every get misses until an insert.
C12_CoverageCacheBoundedLru ==
    [][/\ Len(cache') <= 100
       /\ \A key \in cache_log'.key :
             /\ (cache_log'.op = "insert" /\ key \in CachedKeys(cache))
                    => /\ Len(cache') = Len(cache)
                       /\ Peek(cache', key) = cache_log'.tile
             /\ (cache_log'.op = "insert" /\ key \notin CachedKeys(cache)
                                          /\ Len(cache) = 100)
                    => CachedKeys(cache') =
                           (CachedKeys(cache) \ {LeastRecentlyUsed(cache, cache_uses)})
                           \cup {key}
             /\ (cache_log'.op = "get" /\ cache_log.cleared)
                    => cache_log'.tile = None
       /\ cache_log'.op = "clear" => cache' = <<>>]_vars

\* C12, reached: the full cache has taken a new key and evicted the third
\* oldest entry: the oldest one had been read and the second had its tile
\* replaced before.
C12_Witness ==
    /\ Len(cache) = 100
    /\ CacheKeyOf(100 + 1) \in CachedKeys(cache)
    /\ Peek(cache, CacheKeyOf(1)) = Some(CacheTileOf(1, 1))
    /\ Peek(cache, CacheKeyOf(2)) = Some(CacheTileOf(2, 2))
    /\ CacheKeyOf(3) \notin CachedKeys(cache)

\* C12, reached as well: a get that misses after clear.
C12_WitnessClear ==
    /\ cache_log.op = "get" /\ cache_log.cleared /\ cache_log.tile = None

\* C14: once the build has been asked to stop, it casts no further ray and
\* does not come to return a viewshed.
C14_NoRayAfterCancel ==
    [][cancel => (rays_cast' = rays_cast /\ ~ViewshedBuilt')]_vars

\* C19: get_altitude returns 0 for a tile whose HGT file is absent, has an
\* unexpected size or cannot be read.
C19_AltitudeZeroWithoutTile ==
    \A res \in altitude_result :
        terrain_files[res.key] # "hgt" => res.altitude = 0

\* C19, reached: a call has returned 0 for a tile whose load failed, the
\* flat tile that stands for an absent file is in the cache, and so is a
\* tile that was loaded from its file.
C19_Witness ==
    /\ \E res \in altitude_result :
          terrain_files[res.key] \in {"bad_size", "io_error"} /\ res.altitude = 0
    /\ \E key \in TerrainKeys :
          /\ terrain_files[key] = "absent"
          /\ Peek(terrain_cache, key) = Some(TerrainTile(key, 0))
    /\ \E key \in TerrainKeys :
          terrain_files[key] = "hgt" /\ Peek(terrain_cache, key) # None

\* The distances of the intermediate samples of a path of length dist.
LosSampleDists(dist) == {d \in 1..MaxLosDist : d % 2 = 0 /\ d < dist}

\* C20: when check_visibility returns is_visible = false for a target more
\* than one step (100 m) away, obstruction_dist_m is the distance of an
\* intermediate sample, strictly between the radar and the target; when it
\* returns is_visible = true, obstruction_dist_m is None.
C20_ObstructionIsIntermediateSample ==
    \A call \in los_call :
        /\ (~call.result.is_visible /\ call.dist > 2)
               => /\ call.result.obstruction_dist_m # None
                  /\ call.result.obstruction_dist_m \subseteq LosSampleDists(call.dist)
        /\ call.result.is_visible => call.result.obstruction_dist_m = None

\* C20, reached: a target hidden by the ground of the second sample, over
\* ground that is lower at the first.
C20_Witness ==
    \E call \in los_call :
        /\ ~call.result.is_visible
        /\ call.dist > 4
        /\ call.result.obstruction_dist_m = Some(4)
        /\ call.profile[2] < call.profile[4]

\* The ground of a call is flat and at sea level up to its target.
LosFlatZero(call) == \A d \in 1..MaxLosDist : call.profile[d] = 0

\* C21: over flat terrain at altitude 0, check_visibility reports a target
\* that is closer than the first sampling step (100 m) and not below the
\* radar as visible.
C21_CloseTargetVisible ==
    \A call \in los_call :
        (/\ call.dist < 2
         /\ LosFlatZero(call)
         /\ call.target_agl >= call.radar.altitude + call.radar.antenna_height_agl)
            => call.result.is_visible

\* C21, reached: a target one half step away, at the height of the radar,
\* that the curvature of the Earth puts under the horizontal.
C21_Witness ==
    \E call \in los_call :
        /\ call.dist = 1
        /\ LosFlatZero(call)
        /\ call.target_agl = call.radar.altitude + call.radar.antenna_height_agl
        /\ call.target_agl > 0
        /\ call.result.margin[1][1] < 0
        /\ call.result.is_visible

\* ceil(a / b) for b > 0.
CeilDiv(a, b) == CHOOSE n \in 0..a : n * b >= a /\ (n - 1) * b < a

\* The tile compute_coverage_tile returns at step 1 for the inputs of tile t.
FullResolutionOf(t) ==
    ComputeCoverageTileOf(phys_radar, horizon_map, terrain, t.lat_idx, t.lon_idx,
                          t.max_range, t.target_agl, 1)

\* C22: for a step s > 1, the tile has ceil(FullSize / s) pixels per side and
\* its pixel (x, y) has the class and the margin of pixel (x * s, y * s) of
\* the tile computed at step 1 from the same inputs.
C22_StepSubsamplesFullTile ==
    \A t \in coverage_tile :
        t.step_size > 1 =>
            /\ t.size = CeilDiv(FullSize, t.step_size)
            /\ DOMAIN t.data = (0..(t.size - 1)) \X (0..(t.size - 1))
            /\ DOMAIN t.snr_margin = DOMAIN t.data
            /\ \A full \in {FullResolutionOf(t)} : \A p \in DOMAIN t.data :
                  LET q == <<p[1] * t.step_size, p[2] * t.step_size>>
                  IN  /\ q \in DOMAIN full.data
                      /\ t.data[p] = full.data[q]
                      /\ t.snr_margin[p] = full.snr_margin[q]

\* C22, reached: a tile at step 2 with visible, shadowed and out-of-range
\* pixels, whose full-resolution tile has a row that is not constant.
C22_Witness ==
    \E t \in coverage_tile :
        /\ t.step_size = 2
        /\ \A class \in {0, 1, 2} : \E p \in DOMAIN t.data : t.data[p] = class
        /\ \E full \in {FullResolutionOf(t)} : \E q \in DOMAIN full.data :
              /\ q[1] + 1 < FullSize
              /\ full.data[q] # full.data[<<q[1] + 1, q[2]>>]

\* The altitude of the file of a tile: the height of an HGT file that loads,
\* sea level for a missing file and for a file that fails to load.
FileAltitude(key) == IF terrain_files[key] = "hgt" THEN HgtHeight ELSE 0

\* C23: compute_coverage_tile run twice on the same inputs gives the same
\* rasters whatever the terrain cache does in between: the altitude that
\* get_altitude returns for a position depends on the file of its tile alone,
\* not on whether get_tile hit the cache, loaded the tile, or loaded it again
\* after an eviction.
C23_AltitudeIndependentOfCache ==
    \A res \in altitude_result : res.altitude = FileAltitude(res.key)

\* C23, reached: the tile of an HGT file is loaded again after its eviction,
\* while another thread is between its miss and its load and the cache is full.
C23_Witness ==
    \E res \in altitude_result :
        /\ res.source = "reload"
        /\ res.altitude = HgtHeight
        /\ Len(terrain_cache) = TerrainCapacity
        /\ \E key \in TerrainKeys : InSeq(terrain_uses, key) /\ Peek(terrain_cache, key) = None
        /\ \E t \in Threads : terrain_calls[t] # None

\* C23, reached on the other path: a hit on the tile of an HGT file.
C23_WitnessHit ==
    \E res \in altitude_result :
        /\ res.source = "hit"
        /\ res.altitude = HgtHeight
        /\ \E key \in TerrainKeys : InSeq(terrain_uses, key) /\ Peek(terrain_cache, key) = None

\* Where a radar snapshot stands: its location and its altitude.
PositionOf(radar) == <<radar.latitude, radar.longitude, radar.altitude>>

\* C24: the viewshed a coverage job is evaluated against was built from the
\* location and the altitude of the radar snapshot handed to that job: once
\* the location or the altitude of a radar has changed, no job of that radar
\* uses the viewshed built before the change.
C24_JobViewshedOfJobRadar ==
    \A j \in DOMAIN computing :
        PositionOf(j.tile.viewshed.built_from) = PositionOf(j.tile.radar)

\* The coverage jobs of a (tile, radar_hash) pair, with their multiplicities.
JobsOfPair(jobs, lat_lon, radar_hash) ==
    BagFilter(jobs, LAMBDA j : j.lat_lon = lat_lon /\ j.radar_hash = radar_hash)

\* The radars have pairwise distinct configuration hashes.
DistinctHashes == \A r1, r2 \in RadarIds : r1 # r2 => CurrentHash(r1) # CurrentHash(r2)

\* The jobs a step has spawned: those there are more of than before, the
\* jobs a worker has just finished left aside.
SpawnedJobs ==
    {j \in DOMAIN computing' : ~j.done /\ CopiesIn(j, computing') > CopiesIn(j, computing)}

\* C25: with pairwise distinct configuration hashes, there are never two
\* coverage jobs for one (tile, radar_hash) pair, and no job is spawned for a
\* pair that has a chunk on display.
C25_OneJobPerTileAndHash ==
    [][(DistinctHashes /\ DistinctHashes')
          => /\ \A j \in DOMAIN computing' :
                   BagCardinality(JobsOfPair(computing', j.lat_lon, j.radar_hash)) = 1
             /\ \A j \in SpawnedJobs :
                   ~\E c \in DOMAIN coverage_chunks :
                        c.lat_lon = j.lat_lon /\ c.radar_hash = j.radar_hash]_vars

\* C25, reached: a tile is on display for a radar under its current hash and
\* frames go by without a job for it, while a job of that radar for another
\* hash is still in flight.
C25_Witness ==
    /\ DistinctHashes
    /\ controller.show_coverage
    /\ \E r \in RadarIds :
          /\ \E c \in DOMAIN coverage_chunks : c.radar_hash = CurrentHash(r)
          /\ \A j \in DOMAIN computing : j.radar_hash # CurrentHash(r)
          /\ \E j \in DOMAIN computing :
                j.radar_unique_id = RadarUniqueId(radars[r]) /\ ~j.done
    /\ metrics.tiles_computed > 1

\* C28: a tick that begins and ends with show_coverage false leaves no chunk
\* on display and no job in flight, spawns no job, inserts no job result in
\* the coverage cache, and leaves tiles_computed and cache_hits as they were.
C28_CoverageOffClearsAll ==
    [][(~controller.show_coverage /\ ~controller'.show_coverage /\ ~TaskNext)
          => /\ coverage_chunks' = EmptyBag
             /\ computing' = EmptyBag
             /\ cache' = cache
             /\ metrics' = metrics]_vars

\* C28, reached: coverage has just been switched off with a tile computed
\* and cached, a finished job waiting to be handled, a job still running and
\* a chunk on display.
C28_Witness ==
    /\ ~controller.show_coverage
    /\ coverage_chunks # EmptyBag
    /\ \E j \in DOMAIN computing : j.done
    /\ \E j \in DOMAIN computing : ~j.done
    /\ cache # <<>>
    /\ metrics.tiles_computed > 0

\* The cells compute_viewshed writes: those at most the radius away from the
\* centre.  The others keep the -pi/2 of Viewshed::new.
WrittenCells ==
    {c \in Cells : (c[1] - CenterX) * (c[1] - CenterX)
                   + (c[2] - CenterY) * (c[2] - CenterY) <= VsRadius * VsRadius}

\* C27: every pixel classified visible (1) or shadowed (2) is compared with a
\* cell of horizon_map that the viewshed builder wrote, never with a cell of
\* the grid square that lies beyond the radius and was left at -pi/2.
C27_ClassifiedAgainstWrittenCell ==
    \A t \in coverage_tile : \A p \in DOMAIN t.data :
        t.data[p] # 0 =>
            LatlonToGrid(PixelEast(t.lon_idx, p[1], t.step_size),
                         PixelNorth(t.lat_idx, p[2], t.step_size)) \subseteq WrittenCells

\* C30: for every pixel of coverage tile (lat_idx, lon_idx), row 0 and the
\* last column included, the ground altitude of the target is sampled from
\* terrain tile (lat_idx, lon_idx) itself, not from a neighbouring tile.
C30_GroundFromOwnTile ==
    \A t \in coverage_tile : \A p \in DOMAIN t.ground_tile :
        t.ground_tile[p] \subseteq {<<t.lat_idx, t.lon_idx>>}

\* The threads that have missed tile `key` and are about to load it.
LoadersOf(key) == {t \in Threads : terrain_calls[t] = Some(key)}

\* C29: concurrent get_tile calls for one uncached tile load it at most once:
\* at most one thread is between its miss and its put for a tile, and no
\* thread is about to load (and to put a new handle for) a tile that the
\* cache holds, so that every caller gets the one handle of the cache.
C29_TileLoadedAtMostOnce ==
    \A key \in TerrainKeys :
        /\ Cardinality(LoadersOf(key)) <= 1
        /\ Peek(terrain_cache, key) # None => LoadersOf(key) = {}

\* Every radar has a viewshed and every tile of the window is on display
\* for every radar, under the current hash of that radar.
Settled ==
    \A r \in RadarIds :
        /\ radar_viewshed[r] # None
        /\ \A i \in 1..NumTiles :
              \E c \in DOMAIN coverage_chunks :
                  c.lat_lon = TileSeq[i] /\ c.radar_hash = CurrentHash(r)

\* C26: if the coverage display stays on (the parameter changes, which are
\* bounded, then come to an end), then under fair completion of the
\* background tasks every radar eventually has a viewshed and every tile a
\* chunk on display under the radar's current hash, for good, and from then
\* on no coverage job is spawned (none is in flight any more).
C26_EventuallySettled ==
    <>[]controller.show_coverage => <>[](Settled /\ computing = EmptyBag)

\* C26, reached: settled after the target parameters were changed while
\* jobs for the earlier parameters were in flight.
C26_Witness ==
    /\ controller.show_coverage
    /\ Settled
    /\ computing = EmptyBag
    /\ controller.target_agl # InitController.target_agl
    /\ metrics.tiles_computed > NumRadars * NumTiles

====
